---- MODULE Spec2Model ----
(***************************************************************************)
(* The acquisition control loop of quantify's MeasurementControl           *)
(* (src/quantify/measurement/control.py): the configuration setters, and   *)
(* run() as a sequence of steps between which an asynchronous interrupt    *)
(* (KeyboardInterrupt) may arrive.                                         *)
(***************************************************************************)
EXTENDS Integers, Sequences, FiniteSets, TLC

\* ------------------------------------------------------------------ bounds
MaxPts == 3          \* longest setpoint sequence
MaxSettables == 2    \* most settables registered at once
MaxSoftAvg == 2      \* largest soft_avg
MaxValue == 2        \* get() returns values in 1..MaxValue
MaxAcquired == 4     \* most values a run acquires: len(setpoints) * soft_avg
MaxCells == 6        \* largest sweep a run makes: rows * passes * settables
MaxGridDims == 3     \* most coordinate arrays given to tile_setpoints_grid
MaxGridLen == 3      \* longest coordinate array
MaxGridStart == 1    \* coordinate arrays start at 0..MaxGridStart
MaxGridStep == 1     \* and advance by 0..MaxGridStep per element
MaxGridRows == 6     \* most rows of a tiled grid
MaxLegacyList == 2   \* longest list given to the legacy setters
MaxLoadPars == 2     \* parameters an instrument has in a snapshot
MaxLoadValue == 1    \* largest number, longest string a snapshot records

Values == 1..MaxValue

\* ------------------------------------------------------- numbers and cells
\* A dataset cell is a float: NaN or a (rational) number n/d in lowest terms.
RECURSIVE GCD(_, _)
GCD(a, b) == IF b = 0 THEN a ELSE GCD(b, a % b)

Norm(n, d) ==
    LET g == GCD(n, d) IN
    IF g = 0 THEN [nan |-> FALSE, n |-> 0, d |-> 1]
    ELSE [nan |-> FALSE, n |-> n \div g, d |-> d \div g]

NaN == [nan |-> TRUE, n |-> 0, d |-> 1]
Num(v) == [nan |-> FALSE, n |-> v, d |-> 1]
Zero == Num(0)

RAdd(a, b) == Norm(a.n * b.d + b.n * a.d, a.d * b.d)
RMulInt(a, k) == Norm(a.n * k, a.d)
RDivInt(a, k) == Norm(a.n, a.d * k)

\* ------------------------------------------------------------ the objects
\* A settable or gettable as the loop sees it: its batched flag and whether
\* it defines the optional prepare()/finish() hooks.  Objects are either
\* plain parameters (no hooks) or pyqed-style functions (both hooks).
ObjectKinds ==
    {o \in [batched : BOOLEAN, hasPrepare : BOOLEAN, hasFinish : BOOLEAN] :
        o.hasPrepare = o.hasFinish}

\* The (N, M) setpoint arrays handed to set_setpoints: column k is
\* arange(N) + 10*k, so every cell of the array is distinguishable.
SetpointArray(N, M) ==
    [i \in 1..N |-> [k \in 1..M |-> 10 * (k - 1) + (i - 1)]]

SetpointArrays ==
    {SetpointArray(N, M) : N \in 1..MaxPts, M \in 1..MaxSettables}

SeqsUpTo(S, n) == UNION {[1..m -> S] : m \in 1..n}

\* An entry of the record of calls made on the settables and gettables.
Call(op, who, i, shape, data) ==
    [op |-> op, who |-> who, i |-> i, shape |-> shape, data |-> data]

VARIABLES
    settable_pars,        \* self._settable_pars
    gettable_pars,        \* self._gettable_pars
    setpoints,            \* self._setpoints, rows of one value per settable
    soft_avg,             \* self.soft_avg()
    instr_plotmon,        \* TRUE iff self.instr_plotmon() names a monitor
    on_progress_callback, \* TRUE iff self.on_progress_callback() is not None
    plot_info,            \* self._plot_info: its keys and their values
    setpoints_call,       \* the call that defined self._setpoints
    nr_acquired_values,   \* self._nr_acquired_values
    soft_iterations,      \* self._soft_iterations
    pc,                   \* position of run()
    is_internal,          \* run(): local is_internal
    idx,                  \* run(): local idx / setpoint_idx (0-based)
    pos,                  \* run(): next settable of the inner set loop (1-based)
    dataset,              \* run(): local dataset, the y0 array
    new_len,              \* run(): np.shape(new_data)[1] of the last batch
    calls,                \* calls made on settables/gettables during this run
    dataset_file,         \* exp_folder/dataset.hdf5 of this run, <<>> if absent
    snapshot_file,        \* TRUE iff exp_folder/snapshot.json was written
    plot_updates,         \* number of plotmon.update() signals of this run
    progress,             \* values the progress callback received in this run
    last_upd_fresh,       \* TRUE iff self._last_upd was set since run() began
    update_steps,         \* the statements the latest _update call executed
    exception,            \* exception the latest run() or set_getpars() call
                          \* raised to its caller, "" if none
    returned,             \* dataset run() returned, <<>> if none
    grid_arg,             \* tile_setpoints_grid: the argument setpoints
    grid_out,             \* tile_setpoints_grid: the array returned
    grid_pc,              \* "idle", or "call" / "returned" around the call
    legacy_grid_out,      \* legacy tile_setpoints_grid: the array returned
    legacy_grid_pc,       \* "idle", or "call" / "returned" around that call
    setable_pars,         \* measurement_control.py: self._setable_pars
    getable_pars,         \* measurement_control.py: self._getable_pars
    legacy_call,          \* the latest call on the legacy controller
    legacy_exc,           \* the exception that call raised, "" if none
    kept,                 \* caller: a dataset an earlier run() returned, <<>>
                          \* if the caller keeps none
    instruments,          \* load_settings_onto_instrument: the snapshot's
                          \* 'instruments', name -> parameter -> value
    instrument_sets,      \* the instrument.set(parname, value) calls made
    load_pc,              \* "idle", or "call" / "returned" / "raised"
    load_exc,             \* the exception the call raised, "" if none
    legacy_setpoints,     \* measurement_control.py: self._setpoints
    legacy_calls,         \* set/get calls the latest legacy run() made
    legacy_returned,      \* dataset the latest legacy run() returned
    legacy_file,          \* dataset.hdf5 of the latest legacy run()
    legacy_acquired       \* measurement_control.py: _nr_acquired_values

vars == <<settable_pars, gettable_pars, setpoints, soft_avg, instr_plotmon,
          on_progress_callback, plot_info, setpoints_call,
          nr_acquired_values, soft_iterations, pc,
          is_internal, idx, pos, dataset, new_len, calls, dataset_file,
          snapshot_file, plot_updates, progress, last_upd_fresh, update_steps,
          exception, returned, grid_arg, grid_out, grid_pc, legacy_grid_out,
          legacy_grid_pc, setable_pars, getable_pars,
          legacy_call, legacy_exc, kept, instruments, instrument_sets,
          load_pc, load_exc, legacy_setpoints, legacy_calls,
          legacy_returned, legacy_file, legacy_acquired>>

config == <<settable_pars, gettable_pars, setpoints, soft_avg, instr_plotmon,
            on_progress_callback, plot_info, setpoints_call>>
plotting == <<plot_info, setpoints_call>>
counters == <<nr_acquired_values, soft_iterations>>
locals == <<is_internal, idx, pos, dataset, new_len>>
storage == <<dataset_file, snapshot_file, plot_updates, progress,
             last_upd_fresh, update_steps>>
outcome == <<exception, returned>>
grid == <<grid_arg, grid_out, grid_pc, legacy_grid_out, legacy_grid_pc>>
legacy_run == <<legacy_setpoints, legacy_calls, legacy_returned, legacy_file,
                legacy_acquired>>
legacy == <<setable_pars, getable_pars, legacy_call, legacy_exc, legacy_run>>

\* What lies outside the MeasurementControl of control.py.
loading == <<instruments, instrument_sets, load_pc, load_exc>>
elsewhere == <<grid, legacy, kept, loading>>

Running == pc \notin {"idle", "done", "raised"}

\* ---------------------------------------------------------- construction
\* The dict self._plot_info: the keys it has, and the values of '2D-grid',
\* 'xlen' and 'ylen' (FALSE and 0 standing for a key it does not have).
PlotInfo(keys, grid2D, xlen, ylen) ==
    [keys |-> keys, grid2D |-> grid2D, xlen |-> xlen, ylen |-> ylen]

\* Line 118: self._plot_info = {}.
EmptyPlotInfo == PlotInfo({}, FALSE, 0, 0)

\* Line 221: self._plot_info = {'2D-grid': False}.
ResetPlotInfo == PlotInfo({"2D-grid"}, FALSE, 0, 0)

\* The call that defined the setpoints, with its number of arrays.
SetpointsCall(op, n) == [op |-> op, n |-> n]

\* Lines 104-108, 118: nothing is registered.
NothingRegistered ==
    /\ settable_pars = <<>>
    /\ gettable_pars = <<>>
    /\ setpoints = <<>>
    /\ plot_info = EmptyPlotInfo
    /\ setpoints_call = SetpointsCall("none", 0)

\* The parameters' initial values and the book-keeping of a controller
\* that has not run.
NotRun ==
    /\ soft_avg = 1
    /\ instr_plotmon = FALSE
    /\ on_progress_callback = FALSE
    /\ nr_acquired_values = 0
    /\ soft_iterations = 0
    /\ pc = "idle"
    /\ is_internal = TRUE
    /\ idx = 0
    /\ pos = 1
    /\ dataset = <<>>
    /\ new_len = 0
    /\ calls = <<>>
    /\ dataset_file = <<>>
    /\ snapshot_file = FALSE
    /\ plot_updates = 0
    /\ progress = <<>>
    /\ last_upd_fresh = FALSE
    /\ update_steps = <<>>
    /\ exception = ""
    /\ returned = <<>>

Constructed == NothingRegistered /\ NotRun

\* No grid is being tiled.
NoGrid ==
    /\ grid_arg = <<>>
    /\ grid_out = <<>>
    /\ grid_pc = "idle"
    /\ legacy_grid_out = <<>>
    /\ legacy_grid_pc = "idle"

\* measurement_control.py, __init__: the legacy controller, not called yet.
NoCall == [op |-> "none"]
\* The legacy controller has not run: lines 113-114 of its __init__.
LegacyNotRun ==
    /\ legacy_calls = <<>>
    /\ legacy_returned = <<>>
    /\ legacy_file = <<>>
    /\ legacy_acquired = 0

LegacyConstructed ==
    /\ setable_pars = <<>>
    /\ getable_pars = <<>>
    /\ legacy_call = NoCall
    /\ legacy_exc = ""
    /\ legacy_setpoints = <<>>
    /\ LegacyNotRun

\* No settings are being loaded.
NoLoad ==
    /\ instruments = <<>>
    /\ instrument_sets = {}
    /\ load_pc = "idle"
    /\ load_exc = ""

\* The controllers after construction; no grid is being tiled.
Init ==
    /\ Constructed
    /\ NoGrid
    /\ LegacyConstructed
    /\ kept = <<>>
    /\ NoLoad

\* ------------------------------------------------------------ the setters
\* What a caller passes to set_setpars / set_getpars: one object, or a
\* list (or tuple) of objects.
Single(obj) == [list |-> FALSE, obj |-> obj]
ListOf(objs) == [list |-> TRUE, objs |-> objs]
ParsArgs ==
    {Single(obj) : obj \in ObjectKinds}
        \cup {ListOf(objs) : objs \in SeqsUpTo(ObjectKinds, MaxSettables)}

\* Lines 324-326: anything but a list or tuple is treated as a list of one.
AsList(settable_pars_arg) ==
    IF ~settable_pars_arg.list THEN <<settable_pars_arg.obj>>
    ELSE settable_pars_arg.objs

\* quantify.measurement.Settable / Gettable: the wrapper is built for an
\* object exposing name, unit and set / get; a list exposes none of them.
WrapperAccepts(arg) == ~arg.list

\* The controller is configured before its first run; a caller whose
\* set_getpars call was rejected configures nothing more (the rejected call
\* changed nothing), it may still call run().
Configuring == pc = "idle" /\ exception = ""

\* Lines 327-329: one Settable per element, in order.
set_setpars_call(settable_pars_arg) ==
    /\ Configuring
    /\ settable_pars' = AsList(settable_pars_arg)
    /\ UNCHANGED <<gettable_pars, setpoints, soft_avg, instr_plotmon,
                   on_progress_callback, plotting, counters, pc, locals, calls,
                   storage, outcome>>
    /\ UNCHANGED elsewhere

\* Line 392: self._gettable_pars = [Gettable(gettable_par)], the argument
\* wrapped as it is.
set_getpars_call(gettable_par) ==
    /\ Configuring
    /\ IF WrapperAccepts(gettable_par)
       THEN gettable_pars' = <<gettable_par.obj>> /\ exception' = ""
       ELSE UNCHANGED gettable_pars /\ exception' = "MissingAttribute"
    /\ UNCHANGED <<settable_pars, setpoints, soft_avg, instr_plotmon,
                   on_progress_callback, plotting, counters, pc, locals, calls,
                   storage, returned>>
    /\ UNCHANGED elsewhere

set_setpars ==
    /\ Configuring
    /\ \E settable_pars_arg \in ParsArgs : set_setpars_call(settable_pars_arg)

set_getpars ==
    /\ Configuring
    /\ \E gettable_par \in ParsArgs : set_getpars_call(gettable_par)

\* Lines 345-351: the setpoints are stored and '2D-grid' is set to False.
set_setpoints ==
    /\ Configuring
    /\ \E arr \in SetpointArrays : setpoints' = arr
    /\ plot_info' = [plot_info EXCEPT !.keys = @ \cup {"2D-grid"},
                                      !.grid2D = FALSE]
    /\ setpoints_call' = SetpointsCall("set_setpoints", 1)
    /\ UNCHANGED <<settable_pars, gettable_pars, soft_avg, instr_plotmon,
                   on_progress_callback, counters, pc, locals, calls,
                   storage, outcome>>
    /\ UNCHANGED elsewhere

set_soft_avg ==
    /\ Configuring
    /\ \E k \in 1..MaxSoftAvg : soft_avg' = k
    /\ UNCHANGED <<settable_pars, gettable_pars, setpoints, instr_plotmon,
                   on_progress_callback, plotting, counters, pc, locals, calls,
                   storage, outcome>>
    /\ UNCHANGED elsewhere

set_instr_plotmon ==
    /\ Configuring
    /\ \E b \in BOOLEAN : instr_plotmon' = b
    /\ UNCHANGED <<settable_pars, gettable_pars, setpoints, soft_avg,
                   on_progress_callback, plotting, counters, pc, locals, calls,
                   storage, outcome>>
    /\ UNCHANGED elsewhere

\* self.on_progress_callback(f) / self.on_progress_callback(None).
set_on_progress_callback ==
    /\ Configuring
    /\ \E b \in BOOLEAN : on_progress_callback' = b
    /\ UNCHANGED <<settable_pars, gettable_pars, setpoints, soft_avg,
                   instr_plotmon, plotting, counters, pc, locals, calls,
                   storage, outcome>>
    /\ UNCHANGED elsewhere

\* ------------------------------------------------------------------ run()
\* initialize_dataset: one NaN-filled y array of the setpoint count.
initialize_dataset(spts) == [i \in 1..Len(spts) |-> NaN]

\* A run that takes up the dataset the previous run returned, when there
\* is one.
NewDataset_Reused(previous, spts) ==
    IF previous # <<>> THEN previous ELSE initialize_dataset(spts)

\* Line 146: run() binds its local dataset to what initialize_dataset
\* returns, whatever dataset the previous run returned.
NewDataset(previous, spts) ==
    initialize_dataset(spts)

\* run() is called on a controller configured with at least one settable,
\* a gettable, and setpoints with one column per settable; the runs explored
\* acquire at most MaxAcquired values.
Configured ==
    /\ Len(settable_pars) >= 1
    /\ Len(gettable_pars) >= 1
    /\ Len(setpoints) >= 1
    /\ Len(setpoints[1]) = Len(settable_pars)
    /\ Len(setpoints) * soft_avg <= MaxAcquired
    /\ Len(setpoints) * soft_avg * Len(settable_pars) <= MaxCells

\* Lines 137-164: reset the counters, create the dataset, write the empty
\* dataset and the snapshot, initialise the plot monitor.  The counters
\* reset are _nr_acquired_values, _soft_iterations and _begintime (lines
\* 138-140); _last_upd is not assigned, so it is older than _begintime.
\* The plot monitor's update() (line 164) is called bare: when it raises
\* (fails), the exception leaves run().
RunStart ==
    /\ ~Running
    /\ Configured
    /\ nr_acquired_values' = 0
    /\ soft_iterations' = 0
    /\ last_upd_fresh' = FALSE
    /\ update_steps' = <<>>
    /\ progress' = <<>>
    /\ dataset_file' = NewDataset(returned, setpoints)
    /\ snapshot_file' = TRUE
    /\ calls' = <<>>
    /\ returned' = <<>>
    /\ idx' = 0
    /\ pos' = 1
    /\ new_len' = 0
    /\ is_internal' = TRUE
    /\ \E fails \in (IF instr_plotmon THEN BOOLEAN ELSE {FALSE}) :
          IF fails
          THEN /\ plot_updates' = 0
               /\ dataset' = <<>>
               /\ exception' = "PlotError"
               /\ pc' = "raised"
          ELSE /\ plot_updates' = IF instr_plotmon THEN 1 ELSE 0
               /\ dataset' = NewDataset(returned, setpoints)
               /\ exception' = ""
               /\ pc' = "check"
    /\ UNCHANGED config
    /\ UNCHANGED elsewhere

\* quantify.measurement.types.is_internally_controlled: the controller
\* iterates over the setpoints itself unless the object is batched.
is_internally_controlled(obj) == ~obj.batched

\* ControlMode with the mismatch branch lost: the gettable alone decides.
ControlMode_GettableDecides(spar, gpar) ==
    IF is_internally_controlled(gpar) THEN "internal" ELSE "external"

\* Lines 166-171: the mode of the run, from the first settable and the
\* gettable.
ControlMode(spar, gpar) ==
    IF is_internally_controlled(spar) /\ is_internally_controlled(gpar)
    THEN "internal"
    ELSE IF ~is_internally_controlled(gpar)
         THEN "external"
         ELSE "mismatch"

CheckControl ==
    /\ pc = "check"
    /\ LET mode == ControlMode(settable_pars[1], gettable_pars[1]) IN
       IF mode = "mismatch"
       THEN /\ pc' = "raised"
            /\ exception' = "ControlMismatch"
            /\ dataset' = <<>>
            /\ UNCHANGED is_internal
       ELSE /\ pc' = "prepare"
            /\ is_internal' = (mode = "internal")
            /\ UNCHANGED <<exception, dataset>>
    /\ UNCHANGED <<config, counters, idx, pos, new_len, calls, storage,
                   returned>>
    /\ UNCHANGED elsewhere

Indices(n) == [i \in 1..n |-> i]

\* _prepare_settables leaving its loop at the first missing hook.
PrepareSettablesCalls_StopAtMissing(spars) ==
    LET having == SelectSeq(Indices(Len(spars)),
                            LAMBDA k : \A j \in 1..k : spars[j].hasPrepare)
    IN [n \in 1..Len(having) |->
            Call("prepare", "settable", having[n], "none", <<>>)]

\* _prepare_settables: prepare() on every settable that defines it, a
\* missing hook (AttributeError) being skipped.
PrepareSettablesCalls(spars) ==
    LET having == SelectSeq(Indices(Len(spars)),
                            LAMBDA k : spars[k].hasPrepare)
    IN [n \in 1..Len(having) |->
            Call("prepare", "settable", having[n], "none", <<>>)]

\* _prepare_gettable(setpoints): prepare on the gettable GETTABLE_IDX, with
\* the setpoints when given; a missing hook is skipped.
PrepareGettableCalls(gpars, shape, data) ==
    IF gpars[1].hasPrepare
    THEN <<Call("prepare", "gettable", 1, shape, data)>>
    ELSE <<>>

\* Lines 173-176.
Prepare ==
    /\ pc = "prepare"
    /\ calls' = calls \o PrepareSettablesCalls(settable_pars)
                      \o (IF is_internal
                          THEN PrepareGettableCalls(gettable_pars, "none", <<>>)
                          ELSE <<>>)
    /\ idx' = 0
    /\ pos' = 1
    /\ pc' = IF is_internal THEN "iter_set" ELSE "batch_test"
    /\ UNCHANGED <<config, counters, is_internal, dataset, new_len, storage,
                   outcome>>
    /\ UNCHANGED elsewhere

\* _update's condition (line 233); elapsed says whether more than
\* update_interval has passed since the last update.
UpdateDue(elapsed, acquired, spts) == elapsed \/ acquired = Len(spts)

\* print_progress (lines 287, 299-300): the value the callback is given.
Percdone(acquired, spts, k) == Norm(acquired * 100, Len(spts) * k)

\* Line 238: the plot monitor's update() is called, bare, and raises.
PlotRaises(elapsed, acquired, fails) ==
    UpdateDue(elapsed, acquired, setpoints) /\ instr_plotmon /\ fails

\* The statements of a checkpoint with the plot signal before the write.
UpdateSteps_PlotFirst(due, plot, raises) ==
    IF ~due THEN <<>>
    ELSE (IF plot THEN <<"plot_update">> ELSE <<>>)
         \o (IF raises THEN <<>>
             ELSE <<"print_progress", "to_netcdf", "last_upd">>)

\* _update, the statements executed in order: nothing unless due (line
\* 234), then lines 235, 236, 238 (with a plot monitor) and, unless the
\* plot monitor raised, 239.
UpdateSteps(due, plot, raises) ==
    IF ~due THEN <<>>
    ELSE <<"print_progress", "to_netcdf">>
         \o (IF plot THEN <<"plot_update">> ELSE <<>>)
         \o (IF raises THEN <<>> ELSE <<"last_upd">>)

\* _update (lines 232-239): when due, report the progress, write the
\* dataset, signal the plot monitor and, unless that raised, set _last_upd.
Update(elapsed, acquired, fails) ==
    LET due == UpdateDue(elapsed, acquired, setpoints)
        raises == PlotRaises(elapsed, acquired, fails) IN
    /\ progress' = IF due /\ on_progress_callback
                   THEN Append(progress, Percdone(acquired, setpoints, soft_avg))
                   ELSE progress
    /\ dataset_file' = IF due THEN dataset ELSE dataset_file
    /\ plot_updates' = IF due /\ instr_plotmon /\ ~raises
                       THEN plot_updates + 1 ELSE plot_updates
    /\ last_upd_fresh' = IF due /\ ~raises THEN TRUE ELSE last_upd_fresh
    /\ update_steps' = UpdateSteps(due, instr_plotmon, raises)
    /\ exception' = IF raises THEN "PlotError" ELSE exception
    /\ UNCHANGED snapshot_file

\* Line 181: the value settable k is set to for setpoint row spts.
IterSetArg(spts, k) == spts[k]

\* Lines 179-181, one settable of the row.
IterSet ==
    /\ pc = "iter_set"
    /\ calls' = Append(calls,
                       Call("set", "settable", pos, "scalar",
                            <<IterSetArg(setpoints[idx + 1], pos)>>))
    /\ IF pos < Len(settable_pars)
       THEN pos' = pos + 1 /\ pc' = "iter_set"
       ELSE pos' = 1 /\ pc' = "iter_get"
    /\ UNCHANGED <<config, counters, is_internal, idx, dataset, new_len,
                   storage, outcome>>
    /\ UNCHANGED elsewhere

\* StoreCell writing from the far end of the array.
StoreCell_Reversed(y, i, val) == [y EXCEPT ![Len(y) - i] = Num(val)]

\* Line 185: dataset['y0'].values[idx] = val.
StoreCell(y, i, val) == [y EXCEPT ![i + 1] = Num(val)]

\* Lines 183-185.
IterGet ==
    /\ pc = "iter_get"
    /\ \E val \in Values :
          /\ calls' = Append(calls,
                             Call("get", "gettable", 1, "scalar", <<val>>))
          /\ dataset' = StoreCell(dataset, idx, val)
    /\ pc' = "iter_update"
    /\ UNCHANGED <<config, counters, is_internal, idx, pos, new_len, storage,
                   outcome>>
    /\ UNCHANGED elsewhere

\* Lines 186-187, and the step of the for loop.
IterUpdate ==
    /\ pc = "iter_update"
    /\ nr_acquired_values' = nr_acquired_values + 1
    /\ \E elapsed \in BOOLEAN,
          fails \in (IF instr_plotmon THEN BOOLEAN ELSE {FALSE}) :
          /\ Update(elapsed, nr_acquired_values', fails)
          /\ IF PlotRaises(elapsed, nr_acquired_values', fails)
             THEN idx' = idx /\ dataset' = <<>> /\ pc' = "raised"
             ELSE IF idx + 1 < Len(setpoints)
             THEN idx' = idx + 1 /\ UNCHANGED dataset /\ pc' = "iter_set"
             ELSE idx' = idx /\ UNCHANGED dataset /\ pc' = "wrapup"
    /\ UNCHANGED <<config, soft_iterations, is_internal, pos, new_len, calls,
                   returned>>
    /\ UNCHANGED elsewhere

\* The loop test counting one pass only, whatever soft_avg.
FracNotDone_SinglePass(acquired, spts, k) ==
    acquired < Len(spts)

\* _get_fracdone() < 1.0 (lines 189, 264-265, 280-284):
\* acquired / (len(setpoints) * soft_avg) < 1.
FracNotDone(acquired, spts, k) ==
    acquired < Len(spts) * k

\* The offset without the wrap-around at the end of a sweep.
curr_setpoint_idx_NoWrap(acquired, spts) ==
    acquired

\* _curr_setpoint_idx (lines 275-276, 278): the offset returned.
curr_setpoint_idx(acquired, spts) ==
    acquired % Len(spts)

\* The loop test without the way out of the loop: once every value is
\* acquired the run neither starts a batch nor goes on to the final write.
BatchTest_NoExit ==
    /\ pc = "batch_test"
    /\ FracNotDone(nr_acquired_values, setpoints, soft_avg)
    /\ idx' = curr_setpoint_idx(nr_acquired_values, setpoints)
    /\ soft_iterations' = nr_acquired_values \div Len(setpoints)
    /\ pos' = 1
    /\ pc' = "batch_set"
    /\ UNCHANGED <<config, nr_acquired_values, is_internal, dataset, new_len,
                   calls, storage, outcome>>
    /\ UNCHANGED elsewhere

\* Lines 189-190: the loop test, and _curr_setpoint_idx (lines 267-278).
BatchTest ==
    /\ pc = "batch_test"
    /\ IF FracNotDone(nr_acquired_values, setpoints, soft_avg)
       THEN /\ idx' = curr_setpoint_idx(nr_acquired_values, setpoints)
            /\ soft_iterations' = nr_acquired_values \div Len(setpoints)
            /\ pos' = 1
            /\ pc' = "batch_set"
       ELSE /\ pc' = "wrapup"
            /\ UNCHANGED <<idx, soft_iterations, pos>>
    /\ UNCHANGED <<config, nr_acquired_values, is_internal, dataset, new_len,
                   calls, storage, outcome>>
    /\ UNCHANGED elsewhere

\* Lines 192-193: what settable i receives at offset setpoint_idx,
\* swf_setpoints[setpoint_idx] of its column: one value.
BatchSetArg(spts, i, setpoint_idx) ==
    [shape |-> "scalar", data |-> <<spts[setpoint_idx + 1][i]>>]

\* Lines 191-193, one settable.
BatchSet ==
    /\ pc = "batch_set"
    /\ LET arg == BatchSetArg(setpoints, pos, idx) IN
       calls' = Append(calls,
                       Call("set", "settable", pos, arg.shape, arg.data))
    /\ IF pos < Len(settable_pars)
       THEN pos' = pos + 1 /\ pc' = "batch_set"
       ELSE pos' = 1 /\ pc' = "batch_get"
    /\ UNCHANGED <<config, counters, is_internal, idx, dataset, new_len,
                   storage, outcome>>
    /\ UNCHANGED elsewhere

\* Line 194: self._setpoints[setpoint_idx:, self.GETTABLE_IDX], the rest of
\* column GETTABLE_IDX = 0 of the setpoints.
BatchPrepareArg(spts, setpoint_idx) ==
    [n \in 1..(Len(spts) - setpoint_idx) |-> spts[setpoint_idx + n][1]]

\* Line 204: old_vals[np.isnan(old_vals)] = 0.
NanToZero(y) == [i \in 1..Len(y) |-> IF y[i].nan THEN Zero ELSE y[i]]

\* np.pad taking any widths.
PadFits_Always(row_len, setpoint_idx, total) ==
    TRUE

\* Line 206: np.pad raises a ValueError unless both pad widths,
\* setpoint_idx and total - len(row) - setpoint_idx, are non-negative.
PadFits(row_len, setpoint_idx, total) ==
    setpoint_idx >= 0 /\ total - row_len - setpoint_idx >= 0

\* PaddedRow padding on the right only, whatever the offset.
PaddedRow_NoOffset(row, setpoint_idx, total) ==
    [i \in 1..total |-> IF i <= Len(row) THEN Num(row[i]) ELSE Zero]

\* Line 206: np.pad(row, [setpoint_idx, total - len(row) - setpoint_idx]).
PaddedRow(row, setpoint_idx, total) ==
    [i \in 1..total |->
        IF i > setpoint_idx /\ i <= setpoint_idx + Len(row)
        THEN Num(row[i - setpoint_idx]) ELSE Zero]

\* The combination without the running average: always the plain sum.
CombineRow_SumOnly(old_vals, padded_row, k, iterations) ==
    [i \in 1..Len(old_vals) |-> RAdd(old_vals[i], padded_row[i])]

\* Lines 208-211: the sum, or the running average over the passes.
CombineRow(old_vals, padded_row, k, iterations) ==
    [i \in 1..Len(old_vals) |->
        IF k = 1
        THEN RAdd(old_vals[i], padded_row[i])
        ELSE RDivInt(RAdd(padded_row[i], RMulInt(old_vals[i], iterations)),
                     1 + iterations)]

\* Lines 194-212: prepare the gettable with the remaining setpoints, get a
\* batch (one row of 1 or more values) and combine it into y0.  np.pad
\* raises ValueError when the row is longer than what remains.
BatchGet ==
    /\ pc = "batch_get"
    /\ \E L \in 1..(Len(setpoints) - idx + 1) :
       \E row \in [1..L -> Values] :
          /\ calls' = calls
                \o PrepareGettableCalls(gettable_pars, "array",
                                        BatchPrepareArg(setpoints, idx))
                \o <<Call("get", "gettable", 1, "array", row)>>
          /\ IF ~PadFits(L, idx, Len(dataset))
             THEN /\ pc' = "raised"
                  /\ exception' = "ValueError"
                  /\ dataset' = <<>>
                  /\ UNCHANGED new_len
             ELSE /\ dataset' = CombineRow(NanToZero(dataset),
                                           PaddedRow(row, idx, Len(dataset)),
                                           soft_avg, soft_iterations)
                  /\ new_len' = L
                  /\ pc' = "batch_update"
                  /\ UNCHANGED exception
    /\ UNCHANGED <<config, counters, is_internal, idx, pos, storage, returned>>
    /\ UNCHANGED elsewhere

\* Lines 213-214.
BatchUpdate ==
    /\ pc = "batch_update"
    /\ nr_acquired_values' = nr_acquired_values + new_len
    /\ \E elapsed \in BOOLEAN,
          fails \in (IF instr_plotmon THEN BOOLEAN ELSE {FALSE}) :
          /\ Update(elapsed, nr_acquired_values', fails)
          /\ IF PlotRaises(elapsed, nr_acquired_values', fails)
             THEN dataset' = <<>> /\ pc' = "raised"
             ELSE UNCHANGED dataset /\ pc' = "batch_test"
    /\ UNCHANGED <<config, soft_iterations, is_internal, idx, pos, new_len,
                   calls, returned>>
    /\ UNCHANGED elsewhere

\* The end of the acquisition without the final write.
WrapUp_NoPersist ==
    /\ pc = "wrapup"
    /\ pc' = "finish"
    /\ UNCHANGED <<config, counters, locals, calls, storage, outcome>>
    /\ UNCHANGED elsewhere

\* Line 217: the final write of the dataset.
WrapUp ==
    /\ pc = "wrapup"
    /\ dataset_file' = dataset
    /\ pc' = "finish"
    /\ UNCHANGED <<config, counters, locals, calls, snapshot_file,
                   plot_updates, progress, last_upd_fresh, update_steps,
                   outcome>>
    /\ UNCHANGED elsewhere

\* Line 259: the objects `self._gettable_pars and self._settable_pars`
\* evaluates to.
FinishTargets(gpars, spars) == IF gpars = <<>> THEN gpars ELSE spars

\* Number of leading objects that define finish().
RECURSIVE FinishedPrefix(_)
FinishedPrefix(objs) ==
    IF objs = <<>> \/ ~Head(objs).hasFinish THEN 0
    ELSE 1 + FinishedPrefix(Tail(objs))

\* _finish (lines 257-262): finish() on the targets in order; the first
\* AttributeError leaves the loop and is swallowed.
FinishCalls(gpars, spars) ==
    [n \in 1..FinishedPrefix(FinishTargets(gpars, spars)) |->
        Call("finish", "settable", n, "none", <<>>)]

\* The end of run() without the two resets.
Finish_KeepsSettings ==
    /\ pc = "finish"
    /\ calls' = calls \o FinishCalls(gettable_pars, settable_pars)
    /\ returned' = dataset
    /\ dataset' = <<>>
    /\ pc' = "done"
    /\ UNCHANGED <<config, counters, is_internal, idx, pos, new_len, storage,
                   exception>>
    /\ UNCHANGED elsewhere

\* Lines 219-225.
Finish ==
    /\ pc = "finish"
    /\ calls' = calls \o FinishCalls(gettable_pars, settable_pars)
    /\ plot_info' = ResetPlotInfo
    /\ soft_avg' = 1
    /\ returned' = dataset
    /\ dataset' = <<>>
    /\ pc' = "done"
    /\ UNCHANGED <<settable_pars, gettable_pars, setpoints, instr_plotmon,
                   on_progress_callback, setpoints_call, counters,
                   is_internal, idx, pos, new_len, storage, exception>>
    /\ UNCHANGED elsewhere

\* A KeyboardInterrupt delivered while run() executes: run() has no handler
\* for it, so it leaves run() at once and reaches the caller.
Interrupt ==
    /\ Running
    /\ pc' = "raised"
    /\ exception' = "KeyboardInterrupt"
    /\ dataset' = <<>>
    /\ UNCHANGED <<config, counters, is_internal, idx, pos, new_len, calls,
                   storage, returned>>
    /\ UNCHANGED elsewhere

Next ==
    \/ set_setpars
    \/ set_getpars
    \/ set_setpoints
    \/ set_soft_avg
    \/ set_instr_plotmon
    \/ RunStart
    \/ CheckControl
    \/ Prepare
    \/ IterSet
    \/ IterGet
    \/ IterUpdate
    \/ BatchTest
    \/ BatchSet
    \/ BatchGet
    \/ BatchUpdate
    \/ WrapUp
    \/ Finish
    \/ Interrupt

Spec == Init /\ [][Next]_vars

\* The controller with a progress callback that can be registered and
\* removed between runs, in runs without plot monitor that nothing
\* interrupts.
NextProgress ==
    \/ set_on_progress_callback
    \/ set_setpars
    \/ set_getpars
    \/ set_setpoints
    \/ set_soft_avg
    \/ RunStart
    \/ CheckControl
    \/ Prepare
    \/ IterSet
    \/ IterGet
    \/ IterUpdate
    \/ BatchTest
    \/ BatchSet
    \/ BatchGet
    \/ BatchUpdate
    \/ WrapUp
    \/ Finish

SpecProgress == Init /\ [][NextProgress]_vars

\* meas_ctrl.run_adaptive(name, params) on a configured controller, before
\* any run: the class defines no such method or parameter (lines 14-392),
\* so the attribute lookup fails and nothing else happens.
run_adaptive ==
    /\ pc = "idle"
    /\ Configured
    /\ pc' = "raised"
    /\ exception' = "AttributeError"
    /\ UNCHANGED <<config, counters, locals, calls, storage, returned>>
    /\ UNCHANGED elsewhere

\* The controller being configured for an adaptive run.
NextAdaptive ==
    \/ set_setpars
    \/ set_getpars
    \/ set_setpoints
    \/ set_soft_avg
    \/ set_instr_plotmon
    \/ run_adaptive

SpecAdaptive == Init /\ [][NextAdaptive]_vars

\* The caller keeps the dataset the run returned: dset = meas_ctrl.run().
Keep ==
    /\ pc = "done"
    /\ kept # returned
    /\ kept' = returned
    /\ UNCHANGED <<config, counters, pc, locals, calls, storage, outcome,
                   grid, legacy, loading>>

\* The objects without prepare() and finish().
PlainObjects == {obj \in ObjectKinds : ~obj.hasPrepare}

\* A controller with one settable, one gettable and a 1-D sweep
\* registered, that has not run yet.
InitRerun ==
    /\ settable_pars \in {<<obj>> : obj \in PlainObjects}
    /\ gettable_pars \in {<<obj>> : obj \in PlainObjects}
    /\ setpoints \in {SetpointArray(N, 1) : N \in 1..MaxPts}
    /\ plot_info = ResetPlotInfo
    /\ setpoints_call = SetpointsCall("set_setpoints", 1)
    /\ NotRun
    /\ NoGrid
    /\ LegacyConstructed
    /\ kept = <<>>
    /\ NoLoad

\* Runs one after the other on that controller, the caller keeping results.
NextRerun ==
    \/ RunStart
    \/ CheckControl
    \/ Prepare
    \/ IterSet
    \/ IterGet
    \/ IterUpdate
    \/ BatchTest
    \/ BatchSet
    \/ BatchGet
    \/ BatchUpdate
    \/ WrapUp
    \/ Finish
    \/ Keep

SpecRerun == InitRerun /\ [][NextRerun]_vars

\* Runs of that controller with or without a plot monitor and a progress
\* callback.
NextCheckpoint ==
    \/ set_instr_plotmon
    \/ set_on_progress_callback
    \/ set_soft_avg
    \/ RunStart
    \/ CheckControl
    \/ Prepare
    \/ IterSet
    \/ IterGet
    \/ IterUpdate
    \/ BatchTest
    \/ BatchSet
    \/ BatchGet
    \/ BatchUpdate
    \/ WrapUp
    \/ Finish

SpecCheckpoint == InitRerun /\ [][NextCheckpoint]_vars

\* A controller with a batched settable, a batched gettable and a 1-D
\* sweep registered, that has not run yet.
InitBatched ==
    /\ InitRerun
    /\ settable_pars[1].batched
    /\ gettable_pars[1].batched

\* Batched runs of that controller, with or without averaging.
NextBatched ==
    \/ set_soft_avg
    \/ RunStart
    \/ CheckControl
    \/ Prepare
    \/ BatchTest
    \/ BatchSet
    \/ BatchGet
    \/ BatchUpdate
    \/ WrapUp
    \/ Finish

\* run() executes its next statement whenever it has one: inside run() no
\* other step of NextBatched is enabled.
SpecTermination ==
    InitBatched /\ [][NextBatched]_vars /\ WF_vars(NextBatched)

\* ------------------------------------------------- tile_setpoints_grid
\* np.tile(col, reps): the whole column, reps times over.
Tile(col, reps) ==
    [r \in 1..(Len(col) * reps) |-> col[((r - 1) % Len(col)) + 1]]

\* Repeat laying the array out as np.tile does.
Repeat_Tiled(arr, reps) ==
    [r \in 1..(Len(arr) * reps) |-> arr[((r - 1) % Len(arr)) + 1]]

\* np.repeat(arr, reps): every element reps times in a row.
Repeat(arr, reps) ==
    [r \in 1..(Len(arr) * reps) |-> arr[((r - 1) \div reps) + 1]]

\* setpoints[0].reshape((len(setpoints[0]), 1)): one row per element.
Reshape(arr) == [r \in 1..Len(arr) |-> <<arr[r]>>]

\* xn[:, i].
Column(xn, i) == [r \in 1..Len(xn) |-> xn[r][i]]

\* np.column_stack(cols).
ColumnStack(cols) ==
    [r \in 1..Len(cols[1]) |-> [i \in 1..Len(cols) |-> cols[i][r]]]

\* The for loop of lines 411-418 over the remaining arrays.
RECURSIVE TileLoop(_, _)
TileLoop(xn, rest) ==
    IF rest = <<>> THEN xn
    ELSE LET setpoints_n == Head(rest)
             curr_l == Len(xn)
             new_l == Len(setpoints_n)
             col_stack == [i \in 1..Len(xn[1]) |-> Tile(Column(xn, i), new_l)]
                             \o <<Repeat(setpoints_n, curr_l)>>
         IN TileLoop(ColumnStack(col_stack), Tail(rest))

tile_setpoints_grid(spts) == TileLoop(Reshape(spts[1]), Tail(spts))

RECURSIVE Product(_)
Product(lens) == IF lens = <<>> THEN 1 ELSE Head(lens) * Product(Tail(lens))

Lengths(arrs) == [i \in 1..Len(arrs) |-> Len(arrs[i])]

\* The shapes tried: one to MaxGridDims non-empty arrays whose grid has at
\* most MaxGridRows rows.
GridShapes ==
    {lens \in UNION {[1..k -> 1..MaxGridLen] : k \in 1..MaxGridDims} :
        Product(lens) <= MaxGridRows}

\* The coordinate arrays of length n tried: evenly spaced values, as
\* np.arange and np.linspace produce, a step of 0 giving a constant array.
GridArrays(n) ==
    {[j \in 1..n |-> start + step * (j - 1)] :
        start \in 0..MaxGridStart, step \in 0..MaxGridStep}

\* The lists of coordinate arrays of the given lengths.
RECURSIVE ArraysOf(_)
ArraysOf(lens) ==
    IF lens = <<>> THEN {<<>>}
    ELSE {<<arr>> \o rest : arr \in GridArrays(Head(lens)),
                            rest \in ArraysOf(Tail(lens))}

\* The arguments tried.
GridInputs == UNION {ArraysOf(lens) : lens \in GridShapes}

\* A caller about to tile some coordinate arrays.
InitGrid ==
    /\ Constructed
    /\ grid_arg \in GridInputs
    /\ grid_out = <<>>
    /\ grid_pc = "call"
    /\ legacy_grid_out = <<>>
    /\ legacy_grid_pc = "call"
    /\ LegacyConstructed
    /\ kept = <<>>
    /\ NoLoad

\* The call tile_setpoints_grid(grid_arg).
TileCall ==
    /\ grid_pc = "call"
    /\ grid_out' = tile_setpoints_grid(grid_arg)
    /\ grid_pc' = "returned"
    /\ UNCHANGED <<config, counters, pc, locals, calls, storage, outcome,
                   grid_arg, legacy_grid_out, legacy_grid_pc, legacy, kept,
                   loading>>

NextGrid == TileCall

SpecGrid == InitGrid /\ [][NextGrid]_vars

\* ------------------------------------------ legacy tile_setpoints_grid
\* The legacy for loop over additional_setpoints: the columns so far are
\* tiled, the new array is repeated, and the stack replaces setpoints_curr.
RECURSIVE LegacyTileLoop(_, _)
LegacyTileLoop(setpoints_curr, additional_setpoints) ==
    IF additional_setpoints = <<>> THEN setpoints_curr
    ELSE LET setpoints_n == Head(additional_setpoints)
             curr_l == Len(setpoints_curr)
             new_l == Len(setpoints_n)
             tiled == [i \in 1..Len(setpoints_curr[1]) |->
                          Tile(Column(setpoints_curr, i), new_l)]
             col_stack == Append(tiled, Repeat(setpoints_n, curr_l))
         IN LegacyTileLoop(ColumnStack(col_stack),
                           Tail(additional_setpoints))

\* The legacy function stopping after the first additional array.
legacy_tile_setpoints_grid_OneAxis(setpoints_curr, additional_setpoints) ==
    IF additional_setpoints = <<>> THEN setpoints_curr
    ELSE LegacyTileLoop(setpoints_curr, <<Head(additional_setpoints)>>)

\* The legacy tile_setpoints_grid(setpoints_curr, additional_setpoints):
\* setpoints_curr must have exactly one column.
legacy_tile_setpoints_grid(setpoints_curr, additional_setpoints) ==
    IF \E r \in 1..Len(setpoints_curr) : Len(setpoints_curr[r]) # 1
    THEN "AssertionError"
    ELSE LegacyTileLoop(setpoints_curr, additional_setpoints)

\* The legacy call on the same coordinate arrays: x0 reshaped to (N, 1)
\* and the remaining arrays as the additional setpoints.
LegacyTileCall ==
    /\ legacy_grid_pc = "call"
    /\ legacy_grid_out' =
           legacy_tile_setpoints_grid(Reshape(grid_arg[1]), Tail(grid_arg))
    /\ legacy_grid_pc' = "returned"
    /\ UNCHANGED <<config, counters, pc, locals, calls, storage, outcome,
                   grid_arg, grid_out, grid_pc, legacy, kept, loading>>

NextBothGrids == TileCall \/ LegacyTileCall

SpecBothGrids == InitGrid /\ [][NextBothGrids]_vars

\* ---------------------------------------------------- set_setpoints_grid
\* The lists of coordinate arrays handed to set_setpoints_grid: np.arange
\* arrays of the shapes tried.
GridArgs ==
    {[d \in 1..Len(lens) |-> [j \in 1..lens[d] |-> j - 1]] :
        lens \in GridShapes}

\* Lines 370-373: with exactly two arrays 'xlen', 'ylen' and '2D-grid' are
\* set, otherwise the plot info is left alone.
GridPlotInfo(info, arg) ==
    IF Len(arg) = 2
    THEN PlotInfo(info.keys \cup {"xlen", "ylen", "2D-grid"},
                  TRUE, Len(arg[1]), Len(arg[2]))
    ELSE info

\* Lines 370-374: the plot info is updated and, whatever the number of
\* arrays, the tiled arrays become the setpoints.
set_setpoints_grid ==
    /\ pc \in {"idle", "done"}
    /\ \E arg \in GridArgs :
          /\ plot_info' = GridPlotInfo(plot_info, arg)
          /\ setpoints' = tile_setpoints_grid(arg)
          /\ setpoints_call' = SetpointsCall("set_setpoints_grid", Len(arg))
    /\ UNCHANGED <<settable_pars, gettable_pars, soft_avg, instr_plotmon,
                   on_progress_callback, counters, pc, locals, calls,
                   storage, outcome>>
    /\ UNCHANGED elsewhere

\* A controller with one or two settables and a gettable registered and
\* no setpoints yet.
InitPlotInfo ==
    /\ settable_pars \in {<<obj>> : obj \in PlainObjects}
                          \cup {<<obj, obj>> : obj \in PlainObjects}
    /\ gettable_pars \in {<<obj>> : obj \in PlainObjects}
    /\ setpoints = <<>>
    /\ plot_info = EmptyPlotInfo
    /\ setpoints_call = SetpointsCall("none", 0)
    /\ NotRun
    /\ NoGrid
    /\ LegacyConstructed
    /\ kept = <<>>
    /\ NoLoad

\* The setpoints being defined, as an array or as a grid, and runs.
NextPlotInfo ==
    \/ set_setpoints
    \/ set_setpoints_grid
    \/ RunStart
    \/ CheckControl
    \/ Prepare
    \/ IterSet
    \/ IterGet
    \/ IterUpdate
    \/ BatchTest
    \/ BatchSet
    \/ BatchGet
    \/ BatchUpdate
    \/ WrapUp
    \/ Finish

SpecPlotInfo == InitPlotInfo /\ [][NextPlotInfo]_vars

\* A controller with a gettable, a grid of setpoints defined by
\* set_setpoints_grid and one settable per array of the grid, that has not
\* run yet.
InitSettings ==
    /\ \E arg \in GridArgs :
          /\ settable_pars \in {[i \in 1..Len(arg) |-> obj] :
                                   obj \in PlainObjects}
          /\ setpoints = tile_setpoints_grid(arg)
          /\ plot_info = GridPlotInfo(EmptyPlotInfo, arg)
          /\ setpoints_call = SetpointsCall("set_setpoints_grid", Len(arg))
    /\ gettable_pars \in {<<obj>> : obj \in PlainObjects}
    /\ NotRun
    /\ NoGrid
    /\ LegacyConstructed
    /\ kept = <<>>
    /\ NoLoad

\* The number of averages being chosen, and runs.
NextSettings ==
    \/ set_soft_avg
    \/ RunStart
    \/ CheckControl
    \/ Prepare
    \/ IterSet
    \/ IterGet
    \/ IterUpdate
    \/ BatchTest
    \/ BatchSet
    \/ BatchGet
    \/ BatchUpdate
    \/ WrapUp
    \/ Finish

SpecSettings == InitSettings /\ [][NextSettings]_vars

\* ------------------------------------- load_settings_onto_instrument
\* A value recorded in snapshot.json: None, a number, a boolean or a
\* string (n is the number, 0/1 for False/True, the length of the string).
PyValue(type, n) == [type |-> type, n |-> n]

None == PyValue("NoneType", 0)

SnapshotValues ==
    {None} \cup {PyValue(type, n) : type \in {"int", "str"},
                                    n \in 0..MaxLoadValue}
           \cup {PyValue("bool", n) : n \in 0..1}

\* Python's truth value of val: None, 0, False and '' are false.
Truthy(val) == val.type # "NoneType" /\ val.n # 0

\* Line 30: `if val:`.
ToBeSet(val) ==
    Truthy(val)

ParNames == {"par1", "par2", "par3", "par4"}

\* The instrument handed to the call.
InstrumentName == "instr"

\* load_snapshot(tuid, datadir)['instruments'] of the snapshots tried: the
\* instrument itself and another one may each be recorded, the instrument
\* with up to MaxLoadPars parameters.
LoadParSets ==
    {names \in SUBSET ParNames : Cardinality(names) \in 1..MaxLoadPars}

SnapshotRecords ==
    UNION {[names -> SnapshotValues] : names \in LoadParSets}

Snapshots ==
    {[name \in {"other"} |-> [par \in {"par1"} |-> PyValue("int", 1)]]}
    \cup UNION {{[name \in {InstrumentName} |-> rec],
                 [name \in {InstrumentName, "other"} |-> rec]} :
                   rec \in SnapshotRecords}

\* A caller about to load the settings of a snapshot onto the instrument.
InitLoad ==
    /\ Constructed
    /\ NoGrid
    /\ LegacyConstructed
    /\ kept = <<>>
    /\ instruments \in Snapshots
    /\ instrument_sets = {}
    /\ load_pc = "call"
    /\ load_exc = ""

\* Lines 26-31.
load_settings_onto_instrument ==
    /\ load_pc = "call"
    /\ IF InstrumentName \notin DOMAIN instruments
       THEN /\ load_pc' = "raised"
            /\ load_exc' = "ValueError"
            /\ UNCHANGED instrument_sets
       ELSE /\ instrument_sets' =
                 {<<parname, instruments[InstrumentName][parname]>> :
                     parname \in {par \in DOMAIN instruments[InstrumentName] :
                                    ToBeSet(instruments[InstrumentName][par])}}
            /\ load_pc' = "returned"
            /\ UNCHANGED load_exc
    /\ UNCHANGED <<config, counters, pc, locals, calls, storage, outcome,
                   grid, legacy, kept, instruments>>

NextLoad == load_settings_onto_instrument

SpecLoad == InitLoad /\ [][NextLoad]_vars

\* ------------------------------------- measurement_control.py, the setters
\* An object handed to the legacy setters: the attributes hasattr() finds.
LegacyObjects ==
    [has_name : BOOLEAN, has_unit : BOOLEAN, has_set : BOOLEAN,
     has_get : BOOLEAN]

\* One object, or a list (or tuple) of objects; a list has none of the
\* attributes.
LegacyArgs ==
    {Single(obj) : obj \in LegacyObjects}
        \cup {ListOf(objs) : objs \in SeqsUpTo(LegacyObjects, MaxLegacyList)}

\* is_setable that does not look for unit.
is_setable_NoUnit(setable) ==
    IF ~setable.has_set THEN "AttributeError"
    ELSE IF ~setable.has_name THEN "AttributeError"
    ELSE "True"

\* is_setable (lines 348-367): True, or the AttributeError it raises.
is_setable(setable) ==
    IF ~setable.has_set THEN "AttributeError"
    ELSE IF ~setable.has_name THEN "AttributeError"
    ELSE IF ~setable.has_unit THEN "AttributeError"
    ELSE "True"

\* is_getable (lines 370-389): True, or the AttributeError it raises.
is_getable(getable) ==
    IF ~getable.has_get THEN "AttributeError"
    ELSE IF ~getable.has_name THEN "AttributeError"
    ELSE IF ~getable.has_unit THEN "AttributeError"
    ELSE "True"

\* Lines 262-265: the objects appended before is_setable raises, if it does.
RECURSIVE AppendedSetables(_)
AppendedSetables(objs) ==
    IF objs = <<>> \/ is_setable(Head(objs)) # "True" THEN <<>>
    ELSE <<Head(objs)>> \o AppendedSetables(Tail(objs))

\* A caller whose call was rejected makes no further call.
LegacyConfiguring == legacy_exc = ""

\* Legacy set_setpars (lines 242-265).
legacy_set_setpars ==
    /\ LegacyConfiguring
    /\ \E setable_pars_arg \in LegacyArgs :
        LET objs == AsList(setable_pars_arg) IN
        /\ legacy_call' = [op |-> "set_setpars", arg |-> setable_pars_arg]
        /\ setable_pars' = AppendedSetables(objs)
        /\ legacy_exc' = IF Len(setable_pars') < Len(objs)
                         THEN "AttributeError" ELSE ""
        /\ UNCHANGED <<config, counters, pc, locals, calls, storage, outcome,
                       grid, getable_pars, legacy_run, kept, loading>>

\* Legacy set_getpars (lines 324-345): hasattr(getable_par, 'get') is False
\* for a list.
legacy_set_getpars ==
    /\ LegacyConfiguring
    /\ \E getable_par \in LegacyArgs :
        LET result == IF getable_par.list THEN "AttributeError"
                      ELSE is_getable(getable_par.obj) IN
        /\ legacy_call' = [op |-> "set_getpars", arg |-> getable_par]
        /\ IF result = "True"
           THEN getable_pars' = <<getable_par.obj>> /\ legacy_exc' = ""
           ELSE UNCHANGED getable_pars /\ legacy_exc' = result
        /\ UNCHANGED <<config, counters, pc, locals, calls, storage, outcome,
                       grid, setable_pars, legacy_run, kept, loading>>

NextLegacy ==
    \/ legacy_set_setpars
    \/ legacy_set_getpars

SpecLegacy == Init /\ [][NextLegacy]_vars

\* ----------------------------------------- measurement_control.py, run()
Min(a, b) == IF a <= b THEN a ELSE b

\* Legacy run with the get() of a row before its set() calls.
LegacyRowCalls_GetFirst(spars, spts, val) ==
    <<Call("get", "gettable", 1, "scalar", <<val>>)>>
        \o [k \in 1..Min(Len(spars), Len(spts)) |->
               Call("set", "settable", k, "scalar", <<spts[k]>>)]

\* Lines 172-179, one row: zip(setable_pars, spts) sets every settable to
\* its component, then the getable is read; val is what get() returns.
LegacyRowCalls(spars, spts, val) ==
    [k \in 1..Min(Len(spars), Len(spts)) |->
        Call("set", "settable", k, "scalar", <<spts[k]>>)]
        \o <<Call("get", "gettable", 1, "scalar", <<val>>)>>

\* Lines 170-181: the calls of the rows from the given row on, in order.
RECURSIVE LegacyLoopCalls(_, _, _, _)
LegacyLoopCalls(spars, spts, vals, row) ==
    IF row > Len(spts) THEN <<>>
    ELSE LegacyRowCalls(spars, spts[row], vals[row])
            \o LegacyLoopCalls(spars, spts, vals, row + 1)

\* Line 179: dataset['y0'].values[idx] = val, for every row.
LegacyStored(spts, vals) == [i \in 1..Len(spts) |-> Num(vals[i])]

\* The objects that are not batched.
IterativeObjects == {obj \in ObjectKinds : ~obj.batched}

\* The current and the legacy controller given as many non-batched
\* settables, one non-batched gettable and the same setpoints; neither has
\* run, and both keep soft_avg = 1, no plot monitor and no callback.
InitBoth ==
    /\ \E M \in 1..MaxSettables :
          /\ settable_pars \in [1..M -> IterativeObjects]
          /\ setable_pars
                \in {[k \in 1..M |-> obj] :
                        obj \in {o \in LegacyObjects : is_setable(o) = "True"}}
          /\ setpoints \in {SetpointArray(N, M) : N \in 1..MaxPts}
    /\ gettable_pars \in {<<obj>> : obj \in IterativeObjects}
    /\ getable_pars
          \in {<<obj>> : obj \in {o \in LegacyObjects : is_getable(o) = "True"}}
    /\ legacy_setpoints = setpoints
    /\ legacy_call = NoCall
    /\ legacy_exc = ""
    /\ LegacyNotRun
    /\ plot_info = ResetPlotInfo
    /\ setpoints_call = SetpointsCall("set_setpoints", 1)
    /\ NotRun
    /\ NoGrid
    /\ kept = <<>>
    /\ NoLoad

\* Legacy run() (lines 123-202), the getable returning vals[i] in row i:
\* the counter is reset and ends at the number of rows, every row is set
\* and read, the last row forces the write of the dataset (lines 186-191),
\* which is written again at the end (line 197) and returned.
legacy_run_call ==
    /\ pc = "idle"
    /\ legacy_exc = ""
    /\ legacy_calls = <<>>
    /\ Len(setable_pars) >= 1
    /\ Len(getable_pars) = 1
    /\ Len(legacy_setpoints) >= 1
    /\ \E vals \in [1..Len(legacy_setpoints) -> Values] :
          /\ legacy_calls' = LegacyLoopCalls(setable_pars, legacy_setpoints,
                                             vals, 1)
          /\ legacy_returned' = LegacyStored(legacy_setpoints, vals)
          /\ legacy_file' = LegacyStored(legacy_setpoints, vals)
    /\ legacy_acquired' = Len(legacy_setpoints)
    /\ UNCHANGED <<config, counters, pc, locals, calls, storage, outcome,
                   grid, setable_pars, getable_pars, legacy_call, legacy_exc,
                   legacy_setpoints, kept, loading>>

\* A legacy run, then runs of the current controller.
NextBoth ==
    \/ legacy_run_call
    \/ RunStart
    \/ CheckControl
    \/ Prepare
    \/ IterSet
    \/ IterGet
    \/ IterUpdate
    \/ WrapUp
    \/ Finish

SpecBoth == InitBoth /\ [][NextBoth]_vars

\* ================================================================ claims
SetGetCalls == SelectSeq(calls, LAMBDA c : c.op \in {"set", "get"})
GetCalls == SelectSeq(calls, LAMBDA c : c.op = "get")

RECURSIVE Flatten(_)
Flatten(cs) == IF cs = <<>> THEN <<>> ELSE Head(cs).data \o Flatten(Tail(cs))

\* The values the gettable returned during this run, in order.
GetData == Flatten(GetCalls)

HasObjects == Len(settable_pars) >= 1 /\ Len(gettable_pars) >= 1
Interrupted == pc = "raised" /\ exception = "KeyboardInterrupt"

\* C1: whenever the (first) settable and the gettable disagree on batched,
\* in either direction, run() does not get past its control check: it
\* never picks a mode for a disagreeing pair.
C1_MismatchRaisesBothWays ==
    (HasObjects /\ settable_pars[1].batched # gettable_pars[1].batched)
        => pc \in {"idle", "check", "raised"}

\* C2: with a settable batched and the gettable not batched, run() ends in
\* the configuration error as soon as it reaches its control check, and no
\* set() or get() call has been made on any settable or gettable.
C2_MismatchBeforeAnySetGet ==
    (HasObjects /\ settable_pars[1].batched /\ ~gettable_pars[1].batched)
        => /\ SetGetCalls = <<>>
           /\ pc \in {"idle", "check", "raised"}
           /\ (pc = "raised" /\ exception \notin {"KeyboardInterrupt", "PlotError"})
                 => exception = "ControlMismatch"

C2_Witness ==
    /\ pc = "raised"
    /\ exception = "ControlMismatch"
    /\ settable_pars[1].batched
    /\ ~gettable_pars[1].batched
    /\ Len(settable_pars) = 2
    /\ calls = <<>>

\* C3: when run() fails with the configuration error, no dataset file and no
\* snapshot file has been written and the plot monitor was not signalled.
C3_NothingWrittenOnMismatch ==
    exception = "ControlMismatch"
        => dataset_file = <<>> /\ ~snapshot_file /\ plot_updates = 0

\* C4: in iterative mode the set and get calls follow the setpoint rows in
\* index order, each row setting every settable to its component of the row
\* before the get; and when run() returns, y0[i] is the value the gettable
\* returned in step i, for every row i, with no NaN left.
C4_IterativeRoundTrip ==
    is_internal =>
        LET M == Len(settable_pars)
            sg == SetGetCalls
        IN /\ \A n \in 1..Len(sg) :
                LET r == (n - 1) \div (M + 1)
                    q == ((n - 1) % (M + 1)) + 1
                IN IF q <= M
                   THEN sg[n] = Call("set", "settable", q, "scalar",
                                     <<setpoints[r + 1][q]>>)
                   ELSE sg[n].op = "get" /\ sg[n].shape = "scalar"
           /\ pc = "done" =>
                /\ Len(sg) = Len(setpoints) * (M + 1)
                /\ Len(returned) = Len(setpoints)
                /\ \A i \in 1..Len(setpoints) :
                      /\ ~returned[i].nan
                      /\ returned[i] = Num(sg[i * (M + 1)].data[1])

C4_Witness ==
    /\ pc = "done"
    /\ is_internal
    /\ Len(settable_pars) = 2
    /\ Len(setpoints) = 3
    /\ \A k \in 1..2 : ~settable_pars[k].batched
    /\ returned = <<Num(2), Num(1), Num(2)>>

AcquisitionPcs ==
    {"iter_set", "iter_get", "iter_update",
     "batch_test", "batch_set", "batch_get", "batch_update"}

\* C5: an interrupt that arrives while run() is in its acquisition loop does
\* not make run() raise to its caller.
C5_InterruptDoesNotRaise ==
    [][(pc \in AcquisitionPcs /\ pc' = "raised")
          => exception' # "KeyboardInterrupt"]_vars

\* C6: when an iterative run is interrupted after N points were acquired
\* (N gets made, N points counted, none in flight), the persisted dataset
\* has its first N y cells non-NaN and the others NaN.
C6_InterruptedFileHoldsAcquired ==
    (Interrupted /\ is_internal /\ Len(GetCalls) = nr_acquired_values)
        => \A i \in 1..Len(dataset_file) :
              dataset_file[i].nan <=> (i > nr_acquired_values)

FinishCount(who, k) ==
    Len(SelectSeq(calls,
                  LAMBDA c : c.op = "finish" /\ c.who = who /\ c.i = k))

\* finish() was called exactly once on every settable and on every gettable
\* that defines it.
FinishedOnceEach ==
    /\ \A k \in 1..Len(settable_pars) :
          settable_pars[k].hasFinish => FinishCount("settable", k) = 1
    /\ \A k \in 1..Len(gettable_pars) :
          gettable_pars[k].hasFinish => FinishCount("gettable", k) = 1

\* C7: when a run is interrupted in mid-acquisition, finish() has been
\* invoked exactly once on every settable and gettable that defines it by
\* the time run() is left.
C7_FinishOnInterrupt ==
    (Interrupted /\ Len(GetCalls) >= 1) => FinishedOnceEach

\* C8: at the end of every run() that completes, finish() has been called
\* exactly once on every settable and on every gettable that defines it, an
\* object without finish() neither failing the run nor stopping the others.
C8_FinishOnCompletion ==
    pc = "done" => FinishedOnceEach

\* C9: in batched mode (settables and gettable batched) each loop step
\* passes to every settable, in one set() call, the remaining setpoints of
\* its column from the current offset on (no settable declares a batch_size
\* here, so the full remainder).
C9_BatchedSetGetsRemainder ==
    (/\ pc = "batch_get"
     /\ gettable_pars[1].batched
     /\ \A k \in 1..Len(settable_pars) : settable_pars[k].batched)
        => \A i \in 1..Len(settable_pars) :
              LET c == calls[Len(calls) - Len(settable_pars) + i] IN
              /\ c.op = "set"
              /\ c.i = i
              /\ c.data = [n \in 1..(Len(setpoints) - idx) |->
                              setpoints[idx + n][i]]

\* C10: in batched mode with soft_avg = 1, once the batches returned cover
\* the sweep, y0 is their concatenation: cell i holds exactly the value
\* returned for index i, each cell covered once.
C10_BatchesConcatenate ==
    /\ (~is_internal /\ soft_avg = 1 /\ pc \in {"wrapup", "finish"})
          => /\ Len(GetData) = Len(setpoints)
             /\ \A i \in 1..Len(setpoints) : dataset[i] = Num(GetData[i])
    /\ (~is_internal /\ pc = "done" /\ Len(GetData) = Len(setpoints))
          => /\ Len(returned) = Len(setpoints)
             /\ \A i \in 1..Len(setpoints) : returned[i] = Num(GetData[i])

C10_Witness ==
    /\ pc = "done"
    /\ ~is_internal
    /\ Len(setpoints) = 3
    /\ Len(GetCalls) = 2
    /\ GetCalls[1].data = <<1>>
    /\ GetCalls[2].data = <<2, 1>>
    /\ returned = <<Num(1), Num(2), Num(1)>>

\* The gettable returned one full sweep on every call of this run.
FullSweeps == \A j \in 1..Len(GetCalls) : Len(GetCalls[j].data) = Len(setpoints)

RECURSIVE SumAt(_, _)
SumAt(cs, i) == IF cs = <<>> THEN 0 ELSE Head(cs).data[i] + SumAt(Tail(cs), i)

\* The arithmetic mean, at index i, of the sweeps returned in this run.
SweepMean(i) == Norm(SumAt(GetCalls, i), Len(GetCalls))

\* C11: in batched mode with soft_avg = k > 1, when every get() returns one
\* full sweep, the run makes k get() calls and the y array it ends with and
\* returns holds, in every cell, the arithmetic mean of the k sweeps.
C11_FullSweepsAverage ==
    /\ (~is_internal /\ soft_avg > 1 /\ pc \in {"wrapup", "finish"} /\ FullSweeps)
          => /\ Len(GetCalls) = soft_avg
             /\ \A i \in 1..Len(setpoints) : dataset[i] = SweepMean(i)
    /\ (~is_internal /\ pc = "done" /\ Len(GetCalls) > 1 /\ FullSweeps)
          => /\ Len(returned) = Len(setpoints)
             /\ \A i \in 1..Len(setpoints) : returned[i] = SweepMean(i)

C11_Witness ==
    /\ pc = "done"
    /\ ~is_internal
    /\ Len(GetCalls) = 2
    /\ GetCalls[1].data = <<1, 1>>
    /\ GetCalls[2].data = <<2, 1>>
    /\ returned = <<Norm(3, 2), Num(1)>>

\* The k values returned for index i of a sweep of n points, summed: the
\* values at positions i, n + i, 2n + i, ... of the data returned.
RECURSIVE SumForIndex(_, _, _, _)
SumForIndex(data, i, n, k) ==
    IF k = 0 THEN 0 ELSE data[(k - 1) * n + i] + SumForIndex(data, i, n, k - 1)

\* C12: in batched mode with soft_avg = k > 1, whatever the batch lengths,
\* at the end of the acquisition every cell i holds the mean of the k values
\* returned for index i, and no batch changes the value of a cell outside
\* the index range it covers.
C12_PartialBatchesAverage ==
    /\ [](  (~is_internal /\ soft_avg > 1 /\ pc \in {"wrapup", "finish"})
              => \A i \in 1..Len(setpoints) :
                     dataset[i] = Norm(SumForIndex(GetData, i, Len(setpoints),
                                                   soft_avg), soft_avg)  )
    /\ [][ (pc = "batch_get" /\ pc' = "batch_update" /\ soft_avg > 1)
              => \A i \in 1..Len(setpoints) :
                     (i <= idx \/ i > idx + new_len')
                        => NanToZero(dataset')[i] = NanToZero(dataset)[i] ]_vars

\* C13: in iterative mode with soft_avg = x, at the end of the acquisition
\* the gettable has been read x times at every setpoint and every y value is
\* the mean of the x values read there.
C13_IterativeAverages ==
    (is_internal /\ pc \in {"wrapup", "finish"})
        => /\ Len(GetCalls) = Len(setpoints) * soft_avg
           /\ \A i \in 1..Len(setpoints) :
                  dataset[i] = Norm(SumForIndex(GetData, i, Len(setpoints),
                                                soft_avg), soft_avg)

C15_CheckpointForcedAtFull ==
    [][ (pc \in {"iter_update", "batch_update"} /\ on_progress_callback
            /\ nr_acquired_values' = Len(setpoints) * soft_avg)
          => Len(progress') = Len(progress) + 1 ]_vars

\* C16: every value the progress callback receives during a run is an
\* integer between 0 and 100 inclusive.
C16_ProgressIsIntegerPercent ==
    \A j \in 1..Len(progress) :
        /\ ~progress[j].nan
        /\ progress[j].d = 1
        /\ progress[j].n \in 0..100

\* C17: a failure of the live-plot refresh never aborts a run: run() never
\* ends by raising the plot monitor's error to its caller.
C17_PlotFailureDoesNotAbort ==
    pc = "raised" => exception # "PlotError"

\* C18: when run() has reset its state and is about to check the control
\* mode, the acquired-value count and the soft-average iterations are 0 and
\* the last-checkpoint time is not older than the start of this run.
C18_RunStartResetsAll ==
    pc = "check"
        => /\ nr_acquired_values = 0
           /\ soft_iterations = 0
           /\ last_upd_fresh

\* Number of rows spanned by the coordinates before coordinate i.
RowsBefore(arrs, i) == Product(SubSeq(Lengths(arrs), 1, i - 1))

Injective(arr) == \A a, b \in 1..Len(arr) : arr[a] = arr[b] => a = b

\* C19: tile_setpoints_grid on k arrays of lengths n_1..n_k returns
\* n_1*...*n_k rows of k columns; row r (from 0), column i holds
\* array_i[(r div (n_1*...*n_(i-1))) mod n_i], so the first coordinate
\* varies fastest; when the arrays have no repeated entry the rows are
\* pairwise different, so every combination is in exactly one row.
C19_GridPositions ==
    grid_pc = "returned"
        => /\ Len(grid_out) = Product(Lengths(grid_arg))
           /\ \A r \in 1..Len(grid_out) :
                  /\ Len(grid_out[r]) = Len(grid_arg)
                  /\ \A i \in 1..Len(grid_arg) :
                         grid_out[r][i] =
                            grid_arg[i][(((r - 1) \div RowsBefore(grid_arg, i))
                                            % Len(grid_arg[i])) + 1]
           /\ (\A i \in 1..Len(grid_arg) : Injective(grid_arg[i]))
                 => \A r1, r2 \in 1..Len(grid_out) :
                        grid_out[r1] = grid_out[r2] => r1 = r2

C19_Witness ==
    /\ grid_pc = "returned"
    /\ grid_arg = <<(<<0, 1, 2>>), (<<0, 1>>)>>
    /\ grid_out = <<(<<0, 0>>), (<<1, 0>>), (<<2, 0>>),
                    (<<0, 1>>), (<<1, 1>>), (<<2, 1>>)>>

\* The objects a caller supplied, in the order supplied.
Supplied(arg) == IF arg.list THEN arg.objs ELSE <<arg.obj>>

\* C20: set_setpars and set_getpars, given one object or a list of objects,
\* register exactly the objects supplied, one entry each, in order,
\* replacing what was registered; a list of k gettables registers k.
C20_SettersRegisterEachObject ==
    [][ \A arg \in ParsArgs :
           /\ set_setpars_call(arg) => settable_pars' = Supplied(arg)
           /\ set_getpars_call(arg) => gettable_pars' = Supplied(arg) ]_vars

\* What hasattr() must find on a settable and on a gettable.
HasSetableAttrs(obj) == obj.has_name /\ obj.has_unit /\ obj.has_set
HasGetableAttrs(obj) == obj.has_name /\ obj.has_unit /\ obj.has_get

Elements(objs) == {objs[i] : i \in 1..Len(objs)}

\* C21: registering settables succeeds exactly when every object given has
\* name, unit and set, and then registers them; registering a gettable
\* succeeds exactly when it has name, unit and get; a call given an object
\* lacking one of the three raises the missing-attribute error, and no
\* object lacking one is ever registered.
C21_RegisterIffAttributes ==
    /\ \A obj \in Elements(setable_pars) : HasSetableAttrs(obj)
    /\ \A obj \in Elements(getable_pars) : HasGetableAttrs(obj)
    /\ legacy_call.op = "set_setpars"
          => LET objs == Supplied(legacy_call.arg) IN
             /\ legacy_exc = ""
                   <=> \A obj \in Elements(objs) : HasSetableAttrs(obj)
             /\ legacy_exc = "" => setable_pars = objs
             /\ legacy_exc # "" => legacy_exc = "AttributeError"
    /\ (legacy_call.op = "set_getpars" /\ ~legacy_call.arg.list)
          => LET obj == legacy_call.arg.obj IN
             /\ legacy_exc = "" <=> HasGetableAttrs(obj)
             /\ legacy_exc = "" => getable_pars = <<obj>>
             /\ legacy_exc # "" => legacy_exc = "AttributeError"

\* A list whose second object lacks unit: the call raises after the first
\* object was registered.
C21_Witness ==
    /\ legacy_call.op = "set_setpars"
    /\ legacy_call.arg.list
    /\ Len(legacy_call.arg.objs) = 2
    /\ HasSetableAttrs(legacy_call.arg.objs[1])
    /\ ~legacy_call.arg.objs[2].has_unit
    /\ legacy_call.arg.objs[2].has_name
    /\ legacy_call.arg.objs[2].has_set
    /\ legacy_exc = "AttributeError"
    /\ Len(setable_pars) = 1

\* C22: run_adaptive returns to its caller a dataset with one row per
\* evaluation, each evaluation being the set() calls of a point followed by
\* one get(): as many rows as get() calls, at least one.
C22_AdaptiveReturnsEvaluations ==
    [][ run_adaptive
          => /\ pc' = "done"
             /\ exception' = ""
             /\ Len(returned') >= 1
             /\ Len(returned') =
                   Len(SelectSeq(calls', LAMBDA c : c.op = "get")) ]_vars

C24_BatchBookkeeping ==
    /\ (~is_internal /\ pc \in {"batch_test", "batch_set", "batch_get",
                                 "wrapup", "finish"})
          => nr_acquired_values = Len(GetData)
    /\ (~is_internal /\ pc = "batch_update")
          => /\ new_len = Len(GetCalls[Len(GetCalls)].data)
             /\ nr_acquired_values + new_len = Len(GetData)
    /\ (~is_internal /\ pc \in {"batch_set", "batch_get", "batch_update"})
          => /\ idx = nr_acquired_values % Len(setpoints)
             /\ soft_iterations = nr_acquired_values \div Len(setpoints)

\* The second batch of the second pass over two setpoints.
C24_Witness ==
    /\ pc = "batch_get"
    /\ ~is_internal
    /\ Len(setpoints) = 2
    /\ nr_acquired_values = 3
    /\ Len(GetCalls) = 2
    /\ idx = 1
    /\ soft_iterations = 1

\* C25: in batched mode the prepare(setpoints) that precedes a get() is
\* given the setpoint rows from the current offset onward with the columns
\* of all settables: one entry per remaining row, and the value of every
\* settable for every remaining row is among what it was given.
C25_PrepareGetsAllColumns ==
    (/\ pc = "batch_update"
     /\ ~is_internal
     /\ gettable_pars[1].hasPrepare)
        => LET c == calls[Len(calls) - 1] IN
           /\ c.op = "prepare"
           /\ c.who = "gettable"
           /\ Len(c.data) = Len(setpoints) - idx
           /\ \A i \in 1..Len(settable_pars) :
                 \A n \in 1..(Len(setpoints) - idx) :
                    setpoints[idx + n][i] \in Elements(c.data)

\* C26: a checkpoint executes, in this order, the progress report (the
\* callback being called when one is set), the write of the current
\* dataset, the plot refresh (with a plot monitor) and the reset of the
\* checkpoint clock, a raising plot monitor ending it before the reset;
\* and a step of the acquisition loop writes the dataset or refreshes the
\* plot only as part of a checkpoint.
C26_CheckpointOrder ==
    [][(pc \in AcquisitionPcs)
          => /\ (pc \in {"iter_update", "batch_update"}
                    /\ update_steps' # <<>>)
                  => /\ update_steps'
                          = <<"print_progress", "to_netcdf">>
                            \o (IF instr_plotmon THEN <<"plot_update">>
                                                 ELSE <<>>)
                            \o (IF pc' = "raised" THEN <<>>
                                                  ELSE <<"last_upd">>)
                     /\ Len(progress')
                          = Len(progress)
                            + (IF on_progress_callback THEN 1 ELSE 0)
                     /\ dataset_file' = dataset
                     /\ pc' # "raised"
                          => /\ plot_updates'
                                  = plot_updates
                                    + (IF instr_plotmon THEN 1 ELSE 0)
                             /\ last_upd_fresh'
             /\ (dataset_file' # dataset_file
                    \/ plot_updates' # plot_updates
                    \/ progress' # progress)
                  => /\ pc \in {"iter_update", "batch_update"}
                     /\ update_steps' # <<>>]_vars

\* A checkpoint in the middle of a sweep with a plot monitor and a
\* callback: all four statements ran, the file holds the partial dataset.
C26_Witness ==
    /\ pc = "iter_set"
    /\ instr_plotmon
    /\ on_progress_callback
    /\ update_steps
         = <<"print_progress", "to_netcdf", "plot_update", "last_upd">>
    /\ Len(setpoints) = 3
    /\ nr_acquired_values = 1
    /\ Len(progress) = 1
    /\ plot_updates = 2
    /\ dataset_file = dataset
    /\ dataset[2] = NaN

PrepareCount(who, k) ==
    Len(SelectSeq(calls,
                  LAMBDA c : c.op = "prepare" /\ c.who = who /\ c.i = k))

\* C27: once run() is past its preparation, prepare() has been called
\* exactly once on every settable that defines it and on no other, every
\* such call coming before the first set() of the run; an object without
\* prepare() makes run() raise nothing.
C27_PrepareOnceBeforeSet ==
    /\ pc \in AcquisitionPcs \cup {"wrapup", "finish", "done"}
          => /\ \A k \in 1..Len(settable_pars) :
                   PrepareCount("settable", k)
                     = IF settable_pars[k].hasPrepare THEN 1 ELSE 0
             /\ \A i, j \in 1..Len(calls) :
                   (/\ calls[i].op = "prepare"
                    /\ calls[i].who = "settable"
                    /\ calls[j].op = "set") => i < j
             /\ ~gettable_pars[1].hasPrepare
                   => PrepareCount("gettable", 1) = 0
    /\ exception # "AttributeError"

\* The first settable has no prepare(), the second has, the gettable has
\* none: the row has been set and the second settable prepared.
C27_Witness ==
    /\ pc = "iter_get"
    /\ Len(settable_pars) = 2
    /\ ~settable_pars[1].hasPrepare
    /\ settable_pars[2].hasPrepare
    /\ ~gettable_pars[1].hasPrepare
    /\ PrepareCount("settable", 2) = 1
    /\ calls[1].op = "prepare"
    /\ calls[Len(calls)].op = "set"
    /\ exception = ""

\* self._plot_info['2D-grid'] is there and True.
Is2DGrid == "2D-grid" \in plot_info.keys /\ plot_info.grid2D

\* C28: the '2D-grid' flag is True only when the current setpoints were
\* defined by set_setpoints_grid from exactly two arrays, xlen * ylen then
\* being the number of setpoint rows; setpoints defined in any other way
\* (an array, a grid of one or of three arrays) leave the flag False.
C28_GridFlagMatchesSetpoints ==
    Is2DGrid
        => /\ setpoints_call = SetpointsCall("set_setpoints_grid", 2)
           /\ plot_info.xlen * plot_info.ylen = Len(setpoints)

\* C29: after load_settings_onto_instrument returns, every parameter the
\* snapshot records for the instrument with a value other than None has
\* been set to that value (0, False and '' included) and no parameter
\* recorded as None has been set; when the instrument is not in the
\* snapshot a ValueError is raised and nothing is set.
C29_LoadsEveryRecordedValue ==
    /\ load_pc = "returned"
          => /\ InstrumentName \in DOMAIN instruments
             /\ \A par \in DOMAIN instruments[InstrumentName] :
                   LET val == instruments[InstrumentName][par] IN
                   IF val = None
                   THEN \A v \in SnapshotValues :
                           <<par, v>> \notin instrument_sets
                   ELSE <<par, val>> \in instrument_sets
    /\ load_pc = "raised"
          => /\ InstrumentName \notin DOMAIN instruments
             /\ load_exc = "ValueError"
             /\ instrument_sets = {}

\* C30: while run() executes its iterative branch no registered settable is
\* batched, and while it executes its batched branch every registered
\* settable and the gettable are batched.
C30_ModeMatchesAllSettables ==
    /\ pc \in {"iter_set", "iter_get", "iter_update"}
          => \A k \in 1..Len(settable_pars) : ~settable_pars[k].batched
    /\ pc \in {"batch_test", "batch_set", "batch_get", "batch_update"}
          => /\ \A k \in 1..Len(settable_pars) : settable_pars[k].batched
             /\ gettable_pars[1].batched

\* C31: when run() has left its acquisition loop and is about to return,
\* the progress fraction acquired / (len(setpoints) * soft_avg) is exactly
\* 1, in iterative and in batched mode, for every soft_avg.
C31_FractionOneAtReturn ==
    pc \in {"wrapup", "finish"}
        => nr_acquired_values = Len(setpoints) * soft_avg

\* C32: in a batched run whose get() calls each return between 1 and
\* len(setpoints) - offset values, the acquired count never exceeds
\* len(setpoints) * soft_avg, no batch reaches beyond the end of its pass,
\* and the loop is left with the count exactly len(setpoints) * soft_avg.
C32_BatchedCountBounded ==
    (~is_internal /\ pc \in {"batch_test", "batch_set", "batch_get",
                              "batch_update", "wrapup", "finish"})
        => /\ nr_acquired_values <= Len(setpoints) * soft_avg
           /\ pc = "batch_update"
                 => /\ idx + new_len <= Len(setpoints)
                    /\ nr_acquired_values + new_len
                          <= (soft_iterations + 1) * Len(setpoints)
           /\ pc \in {"wrapup", "finish"}
                 => nr_acquired_values = Len(setpoints) * soft_avg

\* Two passes over two setpoints delivered as batches of 1, 1 and 2
\* values: the loop has been left.
C32_Witness ==
    /\ pc = "wrapup"
    /\ ~is_internal
    /\ soft_avg = 2
    /\ Len(setpoints) = 2
    /\ nr_acquired_values = 4
    /\ Len(GetCalls) = 3
    /\ Len(GetCalls[3].data) = 2

\* C33: a batched run that is at its loop test eventually leaves the
\* acquisition loop: it returns, or it is ended by a get() that returned
\* more values than remain in the pass.
C33_BatchedRunTerminates ==
    (pc = "batch_test" /\ ~is_internal)
        ~> (\/ pc = "done"
            \/ pc = "raised" /\ exception = "ValueError")

\* A batched run of two passes over two setpoints, one value per get(),
\* has returned.
C33_Witness ==
    /\ pc = "done"
    /\ ~is_internal
    /\ Len(setpoints) = 2
    /\ nr_acquired_values = 4
    /\ Len(GetCalls) = 4
    /\ Len(returned) = 2

\* C34: in batched mode a get() that returns more values than remain from
\* the current offset to the end of the setpoints makes run() fail with an
\* error: the acquired count is not advanced and nothing of the batch
\* reaches the stored dataset or the caller.
C34_OvershootRaises ==
    [][(/\ pc = "batch_get"
        /\ Len(calls'[Len(calls')].data) > Len(setpoints) - idx)
          => /\ pc' = "raised"
             /\ exception' = "ValueError"
             /\ nr_acquired_values' = nr_acquired_values
             /\ dataset_file' = dataset_file
             /\ returned' = returned]_vars

\* At offset 1 of two setpoints the gettable returned two values.
C34_Witness ==
    /\ pc = "raised"
    /\ exception = "ValueError"
    /\ Len(setpoints) = 2
    /\ idx = 1
    /\ nr_acquired_values = 1
    /\ calls[Len(calls)].op = "get"
    /\ Len(calls[Len(calls)].data) = 2

\* C35: in a batched run with soft_avg = 1 the dataset a checkpoint has
\* just persisted holds NaN in cell i exactly when index i has not been
\* acquired yet: the cells from the acquired count on are NaN.
C35_UnacquiredCellsAreNaN ==
    (/\ pc = "batch_test"
     /\ ~is_internal
     /\ soft_avg = 1
     /\ update_steps # <<>>)
        => \A i \in 1..Len(setpoints) :
              dataset_file[i].nan <=> i > nr_acquired_values

\* C36: a set_setpars call that raises because one of the objects given is
\* not a valid settable leaves the registered settables as they were.
C36_RejectedSetparsKeepsSettables ==
    [][(/\ legacy_exc = ""
        /\ legacy_exc' # ""
        /\ legacy_call'.op = "set_setpars")
          => setable_pars' = setable_pars]_vars

C38_LegacyRunAgrees ==
    (/\ pc = "done"
     /\ legacy_calls # <<>>
     /\ GetData = Flatten(SelectSeq(legacy_calls, LAMBDA c : c.op = "get")))
        => /\ SetGetCalls = legacy_calls
           /\ returned = legacy_returned

\* Both controllers have swept three rows of two settables, the gettable
\* returning 1, 2, 1.
C38_Witness ==
    /\ pc = "done"
    /\ Len(settable_pars) = 2
    /\ Len(setpoints) = 3
    /\ Len(legacy_calls) = 9
    /\ legacy_returned = <<Num(1), Num(2), Num(1)>>
    /\ returned = legacy_returned
    /\ settable_pars[1].hasPrepare
\* C39: for every list of 1-D arrays, the current tile_setpoints_grid on
\* the list and the legacy tile_setpoints_grid on the first array reshaped
\* to one column and the remaining arrays return the same array, row for
\* row.
C39_LegacyGridAgrees ==
    (grid_pc = "returned" /\ legacy_grid_pc = "returned")
        => /\ Len(legacy_grid_out) = Len(grid_out)
           /\ \A r \in 1..Len(grid_out) : legacy_grid_out[r] = grid_out[r]

C39_Witness ==
    /\ grid_pc = "returned"
    /\ legacy_grid_pc = "returned"
    /\ grid_arg = <<(<<0, 1>>), (<<1, 2>>), (<<0>>)>>
    /\ legacy_grid_out = <<(<<0, 1, 0>>), (<<1, 1, 0>>),
                           (<<0, 2, 0>>), (<<1, 2, 0>>)>>
    /\ grid_out = legacy_grid_out

====
